---- MODULE Spec2Model ----
(***************************************************************************)
(* Model of the attendance matching and classification engine              *)
(* (src/attendance_calculator.py, class AttendanceCalculator).             *)
(*                                                                         *)
(* Encoding.  A calendar date is a day number.  A time string is the tuple *)
(* of the integers between its ':' separators ("08:05" is <<8, 5>>,        *)
(* "08:05:00" is <<8, 5, 0>>).  A timestamp is a number of minutes,        *)
(* date * 1440 + hour * 60 + minute; NaT is the value pandas gives to a    *)
(* date/time text that does not parse.  A DataFrame is the sequence of its *)
(* rows.  The Arabic status texts are written as token tuples so that the  *)
(* literal and the formatted text stay different values, as in Python.     *)
(***************************************************************************)
EXTENDS Integers, Sequences, FiniteSets, TLC

VARIABLES
    pc,                     \* position inside calculate_attendance
    fingerprint_input,      \* punch batch as the caller passed it
    fingerprint_data,       \* punch batch (argument, then the cleaned frame)
    fingerprint_columns,    \* fingerprint_data.columns
    shift_input,            \* shift batch as the caller passed it
    shift_data,             \* shift batch (argument, then the cleaned frame)
    shift_columns,          \* shift_data.columns
    required_times,         \* self.required_times
    tolerance_minutes,      \* self.tolerance_minutes
    late_threshold,         \* self.late_threshold
    absence_threshold,      \* self.absence_threshold
    todo,                   \* employees of all_employees not yet iterated
    results,                \* the local list `results`
    employee_shift_counts,  \* self.employee_shift_counts
    daily_results,          \* self.daily_results
    summary,                \* the returned frame, as the set of its rows
    signal,                 \* the message printed on an early return
    missing_columns,        \* the column names listed after that message
    hash_order,             \* iteration order of a set of names in this process
    calls,                  \* calls of calculate_attendance made so far
    previous                \* inputs and tables of the call before this one

vars == <<pc, fingerprint_input, fingerprint_data, fingerprint_columns, shift_data, shift_columns,
          required_times, tolerance_minutes, late_threshold, absence_threshold,
          todo, results, employee_shift_counts, daily_results, summary, signal,
          missing_columns, shift_input, hash_order, calls, previous>>

----------------------------------------------------------------------------
(* Bounds of the explored inputs *)

MaxPunches == 3
MaxShifts == 3
MaxCalls == 2

(* Values *)

MinutesPerDay == 1440
NaT == -1
NearDuplicateMinutes == 10
\* a Shift Date text that is not a date
UnparseableDate == -1

Employees == <<"A", "B">>
UnknownDepartment == "Unknown"

\* 'مستوفي'
StatusComplete == <<"Complete">>
\* 'غائب'
StatusAbsent == <<"Absent">>
\* 'نقص بصمة'
StatusIncompleteLiteral == <<"Incomplete">>
\* f'نقص بصمة ({missing_count})'
StatusIncomplete(missing_count) == <<"Incomplete", "(", missing_count, ")">>

time_normalization_map(time_str) ==
    IF time_str = <<3, 0>> \/ time_str = <<3, 0, 0>> THEN <<15, 0>> ELSE time_str

----------------------------------------------------------------------------
(* Generic helpers on sequences *)

RECURSIVE SumSeq(_)
SumSeq(s) == IF s = <<>> THEN 0 ELSE Head(s) + SumSeq(Tail(s))

Range(s) == {s[i] : i \in DOMAIN s}

RECURSIVE SelectIdx(_, _, _)
\* the rows of s whose index is in S, from index i on, in order
SelectIdx(s, S, i) ==
    IF i > Len(s) THEN <<>>
    ELSE (IF i \in S THEN <<s[i]>> ELSE <<>>) \o SelectIdx(s, S, i + 1)

NameRank(name) == CHOOSE i \in DOMAIN Employees : Employees[i] = name

Abs(x) == IF x < 0 THEN 0 - x ELSE x

----------------------------------------------------------------------------
(* pd.to_datetime(Date + ' ' + Time, format='%Y-%m-%d %H:%M', errors='coerce') *)

ToDateTime(date, time_str) ==
    IF Len(time_str) = 2 /\ time_str[1] \in 0..23 /\ time_str[2] \in 0..59
    THEN date * MinutesPerDay + time_str[1] * 60 + time_str[2]
    ELSE NaT

----------------------------------------------------------------------------
(* calculate_attendance, lines 69-143: cleaning of the punch batch *)

\* drop_duplicates(subset=..., keep='first'): keys[i] is the subset's value in
\* row i; a row is kept when no earlier row has its key
KeepFirst(df, keys) ==
    SelectIdx(df, {i \in DOMAIN df : \A j \in 1..(i - 1) : keys[j] # keys[i]}, 1)

FingerprintKey(row) == <<row.Name, row.Date, row.Time>>

\* lines 72-84: the exact-duplicate pass, then the (Name, Date, Time) pass
DropDuplicateFingerprints(df) ==
    LET exact == KeepFirst(df, df)
    IN  KeepFirst(exact, [i \in DOMAIN exact |-> FingerprintKey(exact[i])])

\* the temporary DateTime column of lines 90-94 (no time remap here)
RawDateTime(row) == ToDateTime(row.Date, row.Time)

\* sort order of sort_values(['Name', 'DateTime']): NaT sorts last in a name
SortsBefore(a, b) ==
    \/ NameRank(a.Name) < NameRank(b.Name)
    \/ /\ a.Name = b.Name
       /\ RawDateTime(a) # NaT
       /\ (RawDateTime(b) = NaT \/ RawDateTime(a) < RawDateTime(b))

RECURSIVE SortByNameDateTime(_)
\* line 97, a stable sort: the first minimal row, then the rest
SortByNameDateTime(df) ==
    IF df = <<>> THEN <<>>
    ELSE LET i == CHOOSE k \in DOMAIN df :
                    /\ \A j \in DOMAIN df : ~SortsBefore(df[j], df[k])
                    /\ \A j \in 1..(k - 1) : SortsBefore(df[k], df[j])
         IN  <<df[i]>> \o SortByNameDateTime(SelectIdx(df, DOMAIN df \ {i}, 1))

RECURSIVE InnerScanInclusive(_, _, _, _)
\* the loop over j with a punch exactly 10 minutes after the anchor removed
InnerScanInclusive(df, i, j, removed) ==
    IF j > Len(df) THEN removed
    ELSE IF j \in removed \/ RawDateTime(df[j]) = NaT
         THEN InnerScanInclusive(df, i, j + 1, removed)
         ELSE IF df[i].Name # df[j].Name THEN removed
         ELSE IF RawDateTime(df[j]) - RawDateTime(df[i]) <= NearDuplicateMinutes
              THEN InnerScanInclusive(df, i, j + 1, removed \cup {j})
              ELSE removed

RECURSIVE InnerScan(_, _, _, _)
\* lines 112-134: the loop over j for the anchor i
InnerScan(df, i, j, removed) ==
    IF j > Len(df) THEN removed
    ELSE IF j \in removed \/ RawDateTime(df[j]) = NaT
         THEN InnerScan(df, i, j + 1, removed)
         ELSE IF df[i].Name # df[j].Name THEN removed
         ELSE IF RawDateTime(df[j]) - RawDateTime(df[i]) < NearDuplicateMinutes
              THEN InnerScan(df, i, j + 1, removed \cup {j})
              ELSE removed

RECURSIVE IndicesToRemoveAnchoringRemoved(_, _, _)
\* the loop over i without the skip of a removed index of lines 102-103
IndicesToRemoveAnchoringRemoved(df, i, removed) ==
    IF i > Len(df) THEN removed
    ELSE IF RawDateTime(df[i]) = NaT
         THEN IndicesToRemoveAnchoringRemoved(df, i + 1, removed)
         ELSE IndicesToRemoveAnchoringRemoved(df, i + 1, InnerScan(df, i, i + 1, removed))

RECURSIVE IndicesToRemove(_, _, _)
\* lines 100-134: the loop over i
IndicesToRemove(df, i, removed) ==
    IF i > Len(df) THEN removed
    ELSE IF i \in removed \/ RawDateTime(df[i]) = NaT
         THEN IndicesToRemove(df, i + 1, removed)
         ELSE IndicesToRemove(df, i + 1, InnerScan(df, i, i + 1, removed))

\* lines 88-143
RemoveNearDuplicates(df) ==
    IF df = <<>> THEN df
    ELSE LET sorted == SortByNameDateTime(df)
         IN  SelectIdx(sorted, DOMAIN sorted \ IndicesToRemove(sorted, 1, {}), 1)

CleanFingerprints(df) == RemoveNearDuplicates(DropDuplicateFingerprints(df))

\* lines 149-163
CleanShifts(df) ==
    KeepFirst(df, [i \in DOMAIN df |-> <<df[i].Name, df[i].ShiftDate>>])

----------------------------------------------------------------------------
(* _get_fingerprints_for_date_range, lines 301-369.  df is the cleaned     *)
(* punch frame; the groups of groupby(['Name', 'Date']) keep its row order *)

GetGroup(df, emp_name, date) ==
    SelectSeq(df, LAMBDA row : row.Name = emp_name /\ row.Date = date)

RECURSIVE SortByDateTime(_)
\* line 369, sort_values('DateTime')
SortByDateTime(recs) ==
    IF recs = <<>> THEN <<>>
    ELSE LET i == CHOOSE k \in DOMAIN recs :
                    /\ \A j \in DOMAIN recs : recs[j].DateTime >= recs[k].DateTime
                    /\ \A j \in 1..(k - 1) : recs[j].DateTime > recs[k].DateTime
         IN  <<recs[i]>> \o SortByDateTime(SelectIdx(recs, DOMAIN recs \ {i}, 1))

\* lines 336-351: the remapped Time and the DateTime column of one record
WithDateTime(row) ==
    LET normalized_time == time_normalization_map(row.Time)
    IN  [Name |-> row.Name, Department |-> row.Department, Date |-> row.Date,
         Time |-> normalized_time,
         DateTime |-> ToDateTime(row.Date, normalized_time)]

\* the records of the date range without the removal of lines 353-358
GetFingerprintsKeepingNaT(df, emp_name, shift_date) ==
    LET day_records == GetGroup(df, emp_name, shift_date)
        next_day_records == GetGroup(df, emp_name, shift_date + 1)
        all_records == day_records \o next_day_records
        with_dt == [i \in DOMAIN all_records |-> WithDateTime(all_records[i])]
    IN  SortByDateTime(with_dt)

GetFingerprintsForDateRange(df, emp_name, shift_date) ==
    LET day_records == GetGroup(df, emp_name, shift_date)
        next_day_records == GetGroup(df, emp_name, shift_date + 1)
        all_records == day_records \o next_day_records
        with_dt == [i \in DOMAIN all_records |-> WithDateTime(all_records[i])]
        valid == SelectSeq(with_dt, LAMBDA rec : rec.DateTime # NaT)
    IN  SortByDateTime(valid)

----------------------------------------------------------------------------
(* _get_required_times_for_date, lines 427-473 *)

\* lines 443-448: hour, minute = map(int, time_str.split(':')), else 8, 0
ParsedRequired(time_str) ==
    IF Len(time_str) = 2 THEN time_str ELSE <<8, 0>>

\* lines 455-459: time.replace(hour=, minute=) raises ValueError on a field
\* out of range, which the try of lines 443-448 does not enclose
RequiredTimesRaises(configured) ==
    \E i \in DOMAIN configured :
        LET hm == ParsedRequired(configured[i])
        IN  ~(hm[1] \in 0..23 /\ hm[2] \in 0..59)

\* lines 452-459 with a single configured time left on the shift date
RequiredSlotSingleSameDay(configured, shift_date, i) ==
    LET hm == ParsedRequired(configured[i])
        is_last_time == (i = Len(configured)) /\ Len(configured) > 1
        date == IF is_last_time THEN shift_date + 1 ELSE shift_date
    IN  [time |-> date * MinutesPerDay + hm[1] * 60 + hm[2], time_str |-> hm]

\* lines 452-459: the last configured time is on the next day
RequiredSlot(configured, shift_date, i) ==
    LET hm == ParsedRequired(configured[i])
        is_last_time == (i = Len(configured))
        date == IF is_last_time THEN shift_date + 1 ELSE shift_date
    IN  [time |-> date * MinutesPerDay + hm[1] * 60 + hm[2], time_str |-> hm]

GetRequiredTimesForDate(configured, shift_date) ==
    [i \in DOMAIN configured |-> RequiredSlot(configured, shift_date, i)]

----------------------------------------------------------------------------
(* _match_fingerprints_to_required_times, lines 490-562 *)

\* the candidates of one slot without the exclusion of line 518
MatchingFingerprintsReused(fingerprints, req_time, tolerance, used_fingerprints) ==
    SelectSeq(fingerprints, LAMBDA fp :
        /\ fp.DateTime >= req_time - tolerance
        /\ fp.DateTime <= req_time + tolerance)

\* the candidates of one slot with the late end of the window twice as far
MatchingFingerprintsLateWindow(fingerprints, req_time, tolerance, used_fingerprints) ==
    SelectSeq(fingerprints, LAMBDA fp :
        /\ fp.DateTime >= req_time - tolerance
        /\ fp.DateTime <= req_time + 2 * tolerance
        /\ fp.DateTime \notin used_fingerprints)

\* the candidates of one slot with the window open at its late end
MatchingFingerprintsOpenEnd(fingerprints, req_time, tolerance, used_fingerprints) ==
    SelectSeq(fingerprints, LAMBDA fp :
        /\ fp.DateTime >= req_time - tolerance
        /\ fp.DateTime < req_time + tolerance
        /\ fp.DateTime \notin used_fingerprints)

\* lines 515-519: the candidates of one slot, in frame order
MatchingFingerprints(fingerprints, req_time, tolerance, used_fingerprints) ==
    SelectSeq(fingerprints, LAMBDA fp :
        /\ fp.DateTime >= req_time - tolerance
        /\ fp.DateTime <= req_time + tolerance
        /\ fp.DateTime \notin used_fingerprints)

\* lines 522-529: one candidate per clock minute, the first seen
ValidFingerprints(matching) ==
    KeepFirst(matching, [i \in DOMAIN matching |-> matching[i].DateTime])

\* min(..., key=abs distance) giving the last of the minimal ones
ClosestFingerprintLastOnTie(valid, req_time) ==
    LET i == CHOOSE k \in DOMAIN valid :
                /\ \A j \in DOMAIN valid :
                       Abs(valid[j].DateTime - req_time) >= Abs(valid[k].DateTime - req_time)
                /\ \A j \in (k + 1)..Len(valid) :
                       Abs(valid[j].DateTime - req_time) > Abs(valid[k].DateTime - req_time)
    IN  valid[i]

\* line 536: min(..., key=abs distance), the first of the minimal ones
ClosestFingerprint(valid, req_time) ==
    LET i == CHOOSE k \in DOMAIN valid :
                /\ \A j \in DOMAIN valid :
                       Abs(valid[j].DateTime - req_time) >= Abs(valid[k].DateTime - req_time)
                /\ \A j \in 1..(k - 1) :
                       Abs(valid[j].DateTime - req_time) > Abs(valid[k].DateTime - req_time)
    IN  valid[i]

\* lines 505-560: the SlotMatch of one required time
MatchSlot(fingerprints, req, tolerance, used_fingerprints) ==
    LET valid == ValidFingerprints(
                     MatchingFingerprints(fingerprints, req.time, tolerance, used_fingerprints))
    IN  [required_time |-> req.time,
         required_time_str |-> req.time_str,
         matched |-> valid # <<>>,
         actual_time |-> IF valid # <<>> THEN ClosestFingerprint(valid, req.time).DateTime
                         ELSE NaT,
         tolerance_start |-> req.time - tolerance,
         tolerance_end |-> req.time + tolerance]

RECURSIVE MatchFromOnlyMatched(_, _, _, _, _)
\* the loop of line 505 with the append of line 552 inside the branch of line 535
MatchFromOnlyMatched(fingerprints, required, tolerance, i, used_fingerprints) ==
    IF i > Len(required) THEN <<>>
    ELSE LET status == MatchSlot(fingerprints, required[i], tolerance, used_fingerprints)
         IN  IF status.matched
             THEN <<status>> \o MatchFromOnlyMatched(fingerprints, required, tolerance, i + 1,
                                    used_fingerprints \cup {status.actual_time})
             ELSE MatchFromOnlyMatched(fingerprints, required, tolerance, i + 1,
                                    used_fingerprints)

RECURSIVE MatchFromForgetful(_, _, _, _, _)
\* the loop of line 505 without the used_fingerprints.add of line 540
MatchFromForgetful(fingerprints, required, tolerance, i, used_fingerprints) ==
    IF i > Len(required) THEN <<>>
    ELSE <<MatchSlot(fingerprints, required[i], tolerance, used_fingerprints)>>
         \o MatchFromForgetful(fingerprints, required, tolerance, i + 1, used_fingerprints)

RECURSIVE MatchFrom(_, _, _, _, _)
\* the loop of line 505 from slot i on; line 540 grows used_fingerprints
MatchFrom(fingerprints, required, tolerance, i, used_fingerprints) ==
    IF i > Len(required) THEN <<>>
    ELSE LET status == MatchSlot(fingerprints, required[i], tolerance, used_fingerprints)
             used == IF status.matched THEN used_fingerprints \cup {status.actual_time}
                     ELSE used_fingerprints
         IN  <<status>> \o MatchFrom(fingerprints, required, tolerance, i + 1, used)

MatchFingerprintsToRequiredTimes(fingerprints, required, tolerance) ==
    MatchFrom(fingerprints, required, tolerance, 1, {})

----------------------------------------------------------------------------
(* _determine_day_status, lines 564-594 *)

MatchedCount(attendance_status) ==
    Cardinality({i \in DOMAIN attendance_status : attendance_status[i].matched})

\* the status with the matched count in the place of the missing count
DetermineDayStatusMatchedCount(attendance_status, has_punches_on_day, threshold) ==
    LET matched_count == MatchedCount(attendance_status)
        total_required == Len(attendance_status)
    IN  IF ~has_punches_on_day THEN StatusAbsent
        ELSE IF matched_count = total_required THEN StatusComplete
        ELSE StatusIncomplete(matched_count)

\* the status without the Absent branch of lines 576-578
DetermineDayStatusNeverAbsent(attendance_status, has_punches_on_day, threshold) ==
    LET matched_count == MatchedCount(attendance_status)
        total_required == Len(attendance_status)
        missing_count == total_required - matched_count
    IN  IF matched_count = total_required THEN StatusComplete
        ELSE StatusIncomplete(missing_count)

DetermineDayStatus(attendance_status, has_punches_on_day, threshold) ==
    LET matched_count == MatchedCount(attendance_status)
        total_required == Len(attendance_status)
        missing_count == total_required - matched_count
    IN  IF ~has_punches_on_day THEN StatusAbsent
        ELSE IF matched_count = total_required THEN StatusComplete
        ELSE StatusIncomplete(missing_count)

----------------------------------------------------------------------------
(* _calculate_attendance_metrics, lines 600-638 *)

\* lines 613-623: the delay of one slot beyond the tolerance, else 0
LateBy(status, tolerance) ==
    IF status.matched /\ status.actual_time - status.required_time > tolerance
    THEN status.actual_time - status.required_time - tolerance
    ELSE 0

CalculateAttendanceMetrics(attendance_status, tolerance) ==
    LET matched_count == MatchedCount(attendance_status)
        total_required == Len(attendance_status)
    IN  [RequiredChecks |-> total_required,
         ActualChecks |-> matched_count,
         MissingChecks |-> total_required - matched_count,
         LateCount |-> Cardinality({i \in DOMAIN attendance_status :
                                       LateBy(attendance_status[i], tolerance) > 0}),
         LateMinutes |-> SumSeq([i \in DOMAIN attendance_status |->
                                       LateBy(attendance_status[i], tolerance)])]

----------------------------------------------------------------------------
(* _calculate_day_attendance, lines 371-425 *)

\* lines 399-400 without the restriction to the shift's own date
HasPunchesInRange(fingerprints, shift_date) == Len(fingerprints) > 0

\* lines 399-400: punches of the shift's own date only, not of the next day
\* the test of lines 399-400 looking at the overflow date instead
HasPunchesOnOverflowDay(fingerprints, shift_date) ==
    LET day_punches == SelectSeq(fingerprints, LAMBDA fp : fp.Date = shift_date + 1)
    IN  Len(day_punches) > 0

HasPunchesOnDay(fingerprints, shift_date) ==
    LET day_punches == SelectSeq(fingerprints, LAMBDA fp : fp.Date = shift_date)
    IN  Len(day_punches) > 0

CalculateDayAttendance(emp_name, fingerprints, shift_date, configured, tolerance, threshold) ==
    LET attendance_status ==
            MatchFingerprintsToRequiredTimes(
                fingerprints, GetRequiredTimesForDate(configured, shift_date), tolerance)
        has_punches_on_day == HasPunchesOnDay(fingerprints, shift_date)
        day_status == DetermineDayStatus(attendance_status, has_punches_on_day, threshold)
        metrics == CalculateAttendanceMetrics(attendance_status, tolerance)
    IN  [Name |-> IF Len(fingerprints) > 0 THEN fingerprints[1].Name ELSE emp_name,
         Department |-> IF Len(fingerprints) > 0 THEN fingerprints[1].Department
                        ELSE UnknownDepartment,
         Date |-> shift_date,
         AttendanceStatus |-> attendance_status,
         DayStatus |-> day_status,
         PresentDays |-> IF day_status \in {StatusComplete, StatusIncompleteLiteral}
                         THEN 1 ELSE 0,
         CompleteDays |-> IF day_status = StatusComplete THEN 1 ELSE 0,
         IncompleteDays |-> IF day_status = StatusIncompleteLiteral THEN 1 ELSE 0,
         AbsentDays |-> IF day_status = StatusAbsent THEN 1 ELSE 0,
         RequiredChecks |-> metrics.RequiredChecks,
         ActualChecks |-> metrics.ActualChecks,
         MissingChecks |-> metrics.MissingChecks,
         LateCount |-> metrics.LateCount,
         LateMinutes |-> metrics.LateMinutes]

----------------------------------------------------------------------------
(* _aggregate_employee_results, lines 640-741 *)

\* line 661: the sum of one column over the rows of one (Name, Department)
GroupSum(daily, key, column) ==
    SumSeq([i \in DOMAIN daily |->
               IF <<daily[i].Name, daily[i].Department>> = key
               THEN daily[i][column] ELSE 0])

\* lines 711-719 with the division rounded up
AbsenceDaysRoundedUp(missing_checks, threshold) ==
    IF missing_checks > 0 THEN (missing_checks + threshold - 1) \div threshold ELSE 0

\* lines 711-719 without the division of line 718
AbsenceDaysUndivided(missing_checks, threshold) ==
    IF missing_checks > 0 THEN missing_checks ELSE 0

\* lines 711-719
AbsenceDays(missing_checks, threshold) ==
    IF missing_checks > 0 THEN missing_checks \div threshold ELSE 0

\* lines 733-736 with the test of Absent Days left out
FinalStatusIgnoringAbsence(incomplete_days, absent_days) ==
    IF incomplete_days = 0 THEN "Compliant" ELSE "NonCompliant"

\* lines 733-736: 'ملتزم' or 'غير ملتزم'
FinalStatusOf(incomplete_days, absent_days) ==
    IF incomplete_days = 0 /\ absent_days = 0 THEN "Compliant" ELSE "NonCompliant"

\* lines 680-685
TotalWorkingDays(shift_counts, emp_name) ==
    IF emp_name \in DOMAIN shift_counts THEN shift_counts[emp_name] ELSE 0

SummaryRow(daily, key, shift_counts, threshold) ==
    LET missing_checks == GroupSum(daily, key, "MissingChecks")
        incomplete_days == GroupSum(daily, key, "IncompleteDays")
        absent_days == AbsenceDays(missing_checks, threshold)
    IN  [Name |-> key[1],
         Department |-> key[2],
         TotalWorkingDays |-> TotalWorkingDays(shift_counts, key[1]),
         CompleteDays |-> GroupSum(daily, key, "CompleteDays"),
         IncompleteDays |-> incomplete_days,
         AbsentDays |-> absent_days,
         LateCount |-> GroupSum(daily, key, "LateCount"),
         LateMinutes |-> GroupSum(daily, key, "LateMinutes"),
         RequiredChecks |-> GroupSum(daily, key, "RequiredChecks"),
         ActualChecks |-> GroupSum(daily, key, "ActualChecks"),
         MissingChecks |-> missing_checks,
         FinalStatus |-> FinalStatusOf(incomplete_days, absent_days)]

AggregateEmployeeResults(daily, shift_counts, threshold) ==
    {SummaryRow(daily, key, shift_counts, threshold) :
        key \in {<<daily[i].Name, daily[i].Department>> : i \in DOMAIN daily}}

----------------------------------------------------------------------------
(* calculate_attendance, lines 57-299 *)

\* the shift counts taken over the rows whose date is a date only
ShiftCountsProcessedOnly(shifts) ==
    [name \in {shifts[i].Name : i \in DOMAIN shifts} |->
        Cardinality({i \in DOMAIN shifts :
            shifts[i].Name = name /\ shifts[i].ShiftDate # UnparseableDate})]

\* line 236: shift_data.groupby('Name').size().to_dict()
ShiftCounts(shifts) ==
    [name \in {shifts[i].Name : i \in DOMAIN shifts} |->
        Cardinality({i \in DOMAIN shifts : shifts[i].Name = name})]

\* line 227
AllEmployees(fingerprints, shifts) ==
    {fingerprints[i].Name : i \in DOMAIN fingerprints}
        \cup {shifts[i].Name : i \in DOMAIN shifts}

\* lines 250-252: pd.to_datetime(shift_date) raises on a text that is no date
ShiftDateRaises(shift_date) == shift_date = UnparseableDate

\* lines 246-278: what makes the processing of one shift row raise
ShiftRowRaises(shift_row, configured) ==
    ShiftDateRaises(shift_row.ShiftDate) \/ RequiredTimesRaises(configured)

RECURSIVE DayResultsFromUntilRaise(_, _, _, _, _, _)
\* the shift rows of one employee with a raising row ending the employee's
\* loop, as if the exception reached the handler of lines 279-281
DayResultsFromUntilRaise(emp_shifts, i, fingerprints, configured, tolerance, threshold) ==
    IF i > Len(emp_shifts) THEN <<>>
    ELSE IF ShiftRowRaises(emp_shifts[i], configured) THEN <<>>
    ELSE <<CalculateDayAttendance(
               emp_shifts[i].Name,
               GetFingerprintsForDateRange(
                   fingerprints, emp_shifts[i].Name, emp_shifts[i].ShiftDate),
               emp_shifts[i].ShiftDate, configured, tolerance, threshold)>>
         \o DayResultsFromUntilRaise(emp_shifts, i + 1, fingerprints, configured,
                                     tolerance, threshold)

RECURSIVE DayResultsFrom(_, _, _, _, _, _)
\* lines 246-278: the shift rows of one employee, in frame order; a row whose
\* processing raises is skipped
DayResultsFrom(emp_shifts, i, fingerprints, configured, tolerance, threshold) ==
    IF i > Len(emp_shifts) THEN <<>>
    ELSE (IF ShiftRowRaises(emp_shifts[i], configured) THEN <<>>
          ELSE <<CalculateDayAttendance(
                     emp_shifts[i].Name,
                     GetFingerprintsForDateRange(
                         fingerprints, emp_shifts[i].Name, emp_shifts[i].ShiftDate),
                     emp_shifts[i].ShiftDate, configured, tolerance, threshold)>>)
         \o DayResultsFrom(emp_shifts, i + 1, fingerprints, configured, tolerance, threshold)

\* lines 199 and 206
required_fingerprint_cols == <<"Name", "Department", "Date", "Time">>
required_shift_cols == <<"Name", "Shift Date">>

\* line 81: drop_duplicates(subset=['Name', 'Date', 'Time']) raises KeyError
\* when the frame lacks one of them; it is not inside a try
FingerprintCleaningRaises(columns) == ~({"Name", "Date", "Time"} \subseteq columns)

\* line 160: drop_duplicates(subset=['Name', 'Shift Date']), not inside a try
ShiftCleaningRaises(columns) == ~({"Name", "Shift Date"} \subseteq columns)

\* lines 200 and 207: the required columns the frame lacks
MissingCols(required_cols, columns) == Range(required_cols) \ columns

\* lines 69-236: cleaning, validation, and the set of employees to iterate.
\* pc "raised" is the call left by an exception; the batches are then left as
\* the caller passed them
Normalize ==
    /\ pc = "start"
    /\ IF FingerprintCleaningRaises(fingerprint_columns)
          \/ ShiftCleaningRaises(shift_columns)
       THEN /\ pc' = "raised"
            /\ signal' = "KeyError"
            /\ missing_columns' = {}
            /\ todo' = {}
            /\ UNCHANGED <<fingerprint_data, shift_data>>
       ELSE /\ fingerprint_data' = CleanFingerprints(fingerprint_data)
            /\ shift_data' = CleanShifts(shift_data)
            /\ IF fingerprint_data' = <<>>
               THEN /\ pc' = "done"
                    /\ signal' = "Fingerprint data is empty or None"
                    /\ missing_columns' = {}
                    /\ todo' = {}
               ELSE IF shift_data' = <<>>
               THEN /\ pc' = "done"
                    /\ signal' = "Shift data is empty or None"
                    /\ missing_columns' = {}
                    /\ todo' = {}
               ELSE IF MissingCols(required_fingerprint_cols, fingerprint_columns) # {}
               THEN /\ pc' = "done"
                    /\ signal' = "Missing required column(s) in fingerprint data"
                    /\ missing_columns' =
                           MissingCols(required_fingerprint_cols, fingerprint_columns)
                    /\ todo' = {}
               ELSE IF MissingCols(required_shift_cols, shift_columns) # {}
               THEN /\ pc' = "done"
                    /\ signal' = "Missing required column(s) in shift data"
                    /\ missing_columns' =
                           MissingCols(required_shift_cols, shift_columns)
                    /\ todo' = {}
               ELSE /\ pc' = "loop"
                    /\ signal' = signal
                    /\ missing_columns' = missing_columns
                    /\ todo' = AllEmployees(fingerprint_data', shift_data')
    /\ results' = <<>>
    /\ summary' = {}
    /\ UNCHANGED <<shift_input, hash_order, calls, previous>>
    /\ UNCHANGED <<fingerprint_input, fingerprint_columns, shift_columns,
                   required_times, tolerance_minutes, late_threshold, absence_threshold,
                   employee_shift_counts, daily_results>>

\* the record of a call: its two batches as passed, the daily rows it built
\* and the summary it returned
CallRecord(valid, fingerprints, columns, shifts, daily, returned) ==
    [valid |-> valid, fingerprints |-> fingerprints, columns |-> columns,
     shifts |-> shifts, daily |-> daily, summary |-> returned]

\* before the first call there is no earlier call
NoCall == CallRecord(FALSE, <<>>, {}, <<>>, <<>>, {})

\* line 238: the place of a name in the iteration of the set all_employees;
\* the order of a set of strings follows their hashes, which are fixed
\* within one interpreter process and differ from one process to another
HashRank(order, name) == CHOOSE i \in DOMAIN order : order[i] = name

\* the orders in which a process can iterate the set of all names
IterationOrders ==
    {order \in [DOMAIN Employees -> Range(Employees)] : Range(order) = Range(Employees)}

\* lines 238-281: one iteration of the loop over the set all_employees
ProcessEmployee(emp_name) ==
    /\ pc = "loop"
    /\ emp_name \in todo
    /\ \A other \in todo : HashRank(hash_order, emp_name) <= HashRank(hash_order, other)
    /\ LET emp_shifts == SelectSeq(shift_data, LAMBDA row : row.Name = emp_name)
       IN  results' = results \o DayResultsFrom(emp_shifts, 1, fingerprint_data,
                                     required_times, tolerance_minutes, late_threshold)
    /\ todo' = todo \ {emp_name}
    /\ UNCHANGED <<shift_input, hash_order, calls, previous>>
    /\ UNCHANGED <<pc, fingerprint_input, fingerprint_data, fingerprint_columns, shift_data,
                   shift_columns, required_times, tolerance_minutes,
                   late_threshold, absence_threshold, employee_shift_counts,
                   daily_results, summary, signal, missing_columns>>

\* lines 283-299
Finalize ==
    /\ pc = "loop"
    /\ todo = {}
    /\ pc' = "done"
    /\ employee_shift_counts' = ShiftCounts(shift_data)
    /\ IF results = <<>>
       THEN /\ signal' = "No results generated - check your data"
            /\ summary' = {}
            /\ daily_results' = daily_results
       ELSE /\ signal' = signal
            /\ daily_results' = results
            /\ summary' = AggregateEmployeeResults(
                              results, employee_shift_counts', absence_threshold)
    /\ UNCHANGED <<shift_input, hash_order, calls, previous>>
    /\ UNCHANGED <<fingerprint_input, fingerprint_data, fingerprint_columns,
                   shift_data, shift_columns, required_times, tolerance_minutes, late_threshold,
                   absence_threshold, todo, results, missing_columns>>

Next ==
    \/ Normalize
    \/ \E emp_name \in Range(Employees) : ProcessEmployee(emp_name)
    \/ Finalize

\* get_daily_results, lines 743-750
get_daily_results == daily_results

\* the caller's view of entering calculate_attendance (lines 57-68) with the
\* given batches, after the call before it has returned or raised
EnterCall(punches, columns, shifts) ==
    /\ pc \in {"done", "raised"}
    /\ calls < MaxCalls
    /\ calls' = calls + 1
    /\ previous' = CallRecord(TRUE, fingerprint_input, fingerprint_columns,
                              shift_input, results, summary)
    /\ pc' = "start"
    /\ fingerprint_input' = punches
    /\ fingerprint_data' = punches
    /\ fingerprint_columns' = columns
    /\ shift_input' = shifts
    /\ shift_data' = shifts
    /\ todo' = {}
    /\ results' = <<>>
    /\ summary' = {}
    /\ signal' = ""
    /\ missing_columns' = {}
    /\ UNCHANGED <<shift_columns, required_times, tolerance_minutes,
                   late_threshold, absence_threshold>>

\* a further call on the same calculator: the attributes set by the earlier
\* calls stay as they are
CallAgain(punches, columns, shifts) ==
    /\ EnterCall(punches, columns, shifts)
    /\ UNCHANGED <<employee_shift_counts, daily_results, hash_order>>

\* the same batches given to a calculator constructed with the same
\* configuration in a new interpreter process
Restart ==
    /\ EnterCall(fingerprint_input, fingerprint_columns, shift_input)
    /\ employee_shift_counts' = <<>>
    /\ daily_results' = <<>>
    /\ hash_order' \in IterationOrders

----------------------------------------------------------------------------
(* Inputs *)

PunchRow(name, department, date, time_str) ==
    [Name |-> name, Department |-> department, Date |-> date, Time |-> time_str]

ShiftRow(name, shift_date) == [Name |-> name, ShiftDate |-> shift_date]

\* every selection of at most max rows of base, in the order of base
Batches(base, max) ==
    {SelectIdx(base, S, 1) : S \in {T \in SUBSET DOMAIN base : Cardinality(T) <= max}}

\* the two batches about to be passed to calculate_attendance
InitFrames(punches, punch_columns, shifts, shift_column_sets) ==
    /\ fingerprint_data \in punches
    /\ fingerprint_input = fingerprint_data
    /\ fingerprint_columns \in punch_columns
    /\ shift_data \in shifts
    /\ shift_input = shift_data
    /\ shift_columns \in shift_column_sets

\* a calculator constructed with the given configuration
InitCalculator(times, tolerances, late_thresholds, absence_thresholds) ==
    /\ pc = "start"
    /\ required_times \in times
    /\ tolerance_minutes \in tolerances
    /\ late_threshold \in late_thresholds
    /\ absence_threshold \in absence_thresholds
    /\ todo = {}
    /\ results = <<>>
    /\ employee_shift_counts = <<>>
    /\ daily_results = <<>>
    /\ summary = {}
    /\ signal = ""
    /\ missing_columns = {}
    /\ hash_order \in IterationOrders
    /\ calls = 1
    /\ previous = NoCall

\* a calculator constructed with the given configuration and about to be
\* called with the given batches, which have all their columns
InitWith(punches, shifts, times, tolerances, late_thresholds, absence_thresholds) ==
    /\ InitFrames(punches, {Range(required_fingerprint_cols)},
                  shifts, {Range(required_shift_cols)})
    /\ InitCalculator(times, tolerances, late_thresholds, absence_thresholds)

BasePunches ==
    << PunchRow("A", "d1", 1, <<8, 0>>),
       PunchRow("A", "d1", 1, <<8, 15>>),
       PunchRow("A", "d1", 1, <<8, 5>>),
       PunchRow("A", "d1", 2, <<8, 0>>),
       PunchRow("A", "d2", 2, <<8, 20>>),
       PunchRow("A", "d1", 3, <<8, 0>>),
       PunchRow("B", "d1", 1, <<8, 30>>),
       PunchRow("B", "d1", 2, <<8, 0>>) >>

BaseShifts ==
    << ShiftRow("A", 1), ShiftRow("A", 2), ShiftRow("B", 1), ShiftRow("A", 1) >>

RequiredTimesChoices ==
    { << <<8, 0>>, <<8, 30>>, <<8, 0>> >>,
      << <<8, 0>>, <<8, 0>> >> }

Init ==
    InitWith(Batches(BasePunches, MaxPunches), Batches(BaseShifts, MaxShifts),
             RequiredTimesChoices, {30}, {0, 3}, {1, 3})

Spec == Init /\ [][Next]_vars

(* The documented default configuration and the example day of main():     *)
(* punches at 08:05, 12:10, 14:55, 20:05, 22:58 on the shift date, with an *)
(* optional punch on the next morning and punches that match no slot       *)

DefaultRequiredTimes ==
    << <<8, 0>>, <<12, 0>>, <<15, 0>>, <<20, 0>>, <<23, 0>>, <<8, 0>> >>

ExamplePunches ==
    << PunchRow("A", "d1", 1, <<8, 5>>),
       PunchRow("A", "d1", 1, <<12, 10>>),
       PunchRow("A", "d1", 1, <<14, 55>>),
       PunchRow("A", "d1", 1, <<20, 5>>),
       PunchRow("A", "d1", 1, <<22, 58>>) >>

DefaultPunches ==
    ExamplePunches \o
    << PunchRow("A", "d1", 1, <<10, 0>>),
       PunchRow("A", "d1", 2, <<8, 0>>),
       PunchRow("A", "d1", 2, <<10, 0>>) >>

DefaultShifts == << ShiftRow("A", 1), ShiftRow("A", 2) >>

InitDefault ==
    InitWith(Batches(DefaultPunches, Len(DefaultPunches)),
             Batches(DefaultShifts, Len(DefaultShifts)),
             {DefaultRequiredTimes}, {30}, {3}, {1, 3, 6})

SpecDefault == InitDefault /\ [][Next]_vars

(* Irregular inputs: a punch 45 minutes after a required time, punch times  *)
(* written with seconds or out of range, a shift row whose date is no date, *)
(* and configured required times with one entry, a wrong field count or a   *)
(* field out of range                                                       *)

IrregularPunches ==
    << PunchRow("A", "d1", 1, <<8, 45>>),
       PunchRow("A", "d1", 1, <<8, 5, 0>>),
       PunchRow("A", "d1", 1, <<25, 0>>),
       PunchRow("A", "d1", 1, <<8, 2>>),
       PunchRow("A", "d1", 2, <<8, 0>>),
       PunchRow("B", "d1", 1, <<8, 5, 0>>),
       PunchRow("B", "d1", 2, <<8, 0>>) >>

IrregularShifts ==
    << ShiftRow("A", 1), ShiftRow("A", UnparseableDate), ShiftRow("A", 2),
       ShiftRow("B", 1), ShiftRow("A", 2) >>

IrregularRequiredTimes ==
    { << <<8, 0>>, <<8, 0>> >>,
      << <<8, 0>> >>,
      << <<8, 0>>, <<12, 0>>, <<8, 0>> >>,
      << <<8>>, <<8, 0>> >>,
      << <<25, 0>>, <<8, 0>> >>,
      << <<8, 0>>, <<8, 60>> >> }

InitIrregular ==
    InitWith(Batches(IrregularPunches, MaxPunches), Batches(IrregularShifts, MaxShifts),
             IrregularRequiredTimes, {30}, {3}, {3})

SpecIrregular == InitIrregular /\ [][Next]_vars

(* Punches of two employees a few minutes apart, also across midnight *)

CloseShifts == << ShiftRow("A", 1), ShiftRow("B", 1) >>

ClosePunches ==
    << PunchRow("A", "d1", 1, <<8, 7>>),
       PunchRow("A", "d1", 1, <<8, 0>>),
       PunchRow("A", "d1", 1, <<8, 12>>),
       PunchRow("A", "d1", 1, <<8, 10>>),
       PunchRow("A", "d1", 1, <<8, 19>>),
       PunchRow("B", "d1", 1, <<8, 3>>),
       PunchRow("B", "d1", 1, <<8, 9>>),
       PunchRow("A", "d1", 1, <<8, 5, 0>>),
       PunchRow("A", "d1", 1, <<23, 55>>),
       PunchRow("A", "d1", 2, <<0, 2>>),
       PunchRow("A", "d1", 1, <<3, 0>>),
       PunchRow("A", "d1", 1, <<15, 5>>) >>

CloseRequiredTimes ==
    { << <<8, 0>>, <<8, 0>> >>,
      << <<8, 5>>, <<8, 5>>, <<8, 0>> >> }

InitClose ==
    InitWith(Batches(ClosePunches, MaxPunches), Batches(CloseShifts, Len(CloseShifts)),
             CloseRequiredTimes, {5, 30}, {3}, {3})

SpecClose == InitClose /\ [][Next]_vars

(* Batches that lack at most one column each *)

\* the sets of columns that lack at most one of the required ones
ColumnChoices(required_cols) ==
    {Range(required_cols)} \cup {Range(required_cols) \ {col} : col \in Range(required_cols)}

InitColumns ==
    /\ InitFrames(Batches(BasePunches, MaxPunches), ColumnChoices(required_fingerprint_cols),
                  Batches(BaseShifts, MaxShifts), ColumnChoices(required_shift_cols))
    /\ InitCalculator({<< <<8, 0>>, <<8, 0>> >>}, {30}, {3}, {3})

SpecColumns == InitColumns /\ [][Next]_vars

(* Several calls, on one calculator or on a new one in a new process *)

CallPunches ==
    { <<>>,
      << PunchRow("A", "d1", 1, <<8, 0>>) >>,
      << PunchRow("A", "d1", 1, <<8, 0>>), PunchRow("B", "d1", 1, <<8, 0>>) >> }

CallShifts ==
    { <<>>,
      << ShiftRow("A", 1), ShiftRow("B", 1) >>,
      << ShiftRow("A", UnparseableDate) >> }

CallColumns ==
    {Range(required_fingerprint_cols), Range(required_fingerprint_cols) \ {"Department"}}

InitCalls ==
    /\ InitFrames(CallPunches, CallColumns, CallShifts, {Range(required_shift_cols)})
    /\ InitCalculator({<< <<8, 0>>, <<8, 0>> >>}, {30}, {3}, {3})

NextCalls ==
    \/ Next
    \/ \E punches \in CallPunches, columns \in CallColumns, shifts \in CallShifts :
           CallAgain(punches, columns, shifts)
    \/ Restart

SpecCalls == InitCalls /\ [][NextCalls]_vars

----------------------------------------------------------------------------
(* Properties *)

\* the slot matches of the run so far: <<d, i>> is slot i of DayResult d
SlotRefs ==
    {ref \in (DOMAIN results) \X (1..Len(required_times)) :
        ref[2] \in DOMAIN results[ref[1]].AttendanceStatus}

SlotAt(ref) == results[ref[1]].AttendanceStatus[ref[2]]

\* the cleaned punches of an employee on a date whose timestamp is valid
PunchesOn(emp_name, date) ==
    {i \in DOMAIN fingerprint_data :
        /\ fingerprint_data[i].Name = emp_name
        /\ fingerprint_data[i].Date = date
        /\ ToDateTime(date, time_normalization_map(fingerprint_data[i].Time)) # NaT}

\* C1: within the slot-match list of one (employee, shift day), no two
\* matched slots carry the same actual punch timestamp.
C1_NoInstantTwiceInDay ==
    \A d \in DOMAIN results :
        \A i, j \in DOMAIN results[d].AttendanceStatus :
            (/\ i # j
             /\ results[d].AttendanceStatus[i].matched
             /\ results[d].AttendanceStatus[j].matched)
            => results[d].AttendanceStatus[i].actual_time
                   # results[d].AttendanceStatus[j].actual_time

\* C1 witness: a punch consumed by a slot lies inside the tolerance window of
\* a later slot of the same day, which is left without it.
C1_Witness ==
    \E d \in DOMAIN results :
        \E i, j \in DOMAIN results[d].AttendanceStatus :
            /\ i < j
            /\ results[d].AttendanceStatus[i].matched
            /\ results[d].AttendanceStatus[i].actual_time
                   >= results[d].AttendanceStatus[j].tolerance_start
            /\ results[d].AttendanceStatus[i].actual_time
                   <= results[d].AttendanceStatus[j].tolerance_end
            /\ ~results[d].AttendanceStatus[j].matched

\* C2 as stated: over the whole run no punch of an employee is matched to
\* more than one required slot, the slots of all shift days taken together.
C2_NoPunchMatchedTwiceInRun ==
    \A a, b \in SlotRefs :
        (/\ a # b
         /\ results[a[1]].Name = results[b[1]].Name
         /\ SlotAt(a).matched
         /\ SlotAt(b).matched)
        => SlotAt(a).actual_time # SlotAt(b).actual_time

\* C2 amended: two slots matched to the same punch of an employee belong to
\* two different shift days D and D+1, and the punch is dated D+1; so a
\* punch is matched at most once per shift day.
C2_SharedOnlyAcrossConsecutiveDays ==
    \A a, b \in SlotRefs :
        (/\ a # b
         /\ results[a[1]].Name = results[b[1]].Name
         /\ SlotAt(a).matched
         /\ SlotAt(b).matched
         /\ SlotAt(a).actual_time = SlotAt(b).actual_time
         /\ results[a[1]].Date <= results[b[1]].Date)
        => /\ results[b[1]].Date = results[a[1]].Date + 1
           /\ SlotAt(a).actual_time \div MinutesPerDay = results[b[1]].Date

\* C2 witness: one punch is matched by the overflow slot of day D and by a
\* slot of day D+1.
C2_Witness ==
    \E a, b \in SlotRefs :
        /\ results[a[1]].Name = results[b[1]].Name
        /\ results[b[1]].Date = results[a[1]].Date + 1
        /\ a[2] = Len(required_times)
        /\ SlotAt(a).matched
        /\ SlotAt(b).matched
        /\ SlotAt(a).actual_time = SlotAt(b).actual_time

\* C3: in every DayResult Actual Checks + Missing Checks = Required Checks,
\* 0 <= Actual Checks <= Required Checks, and Required Checks is the number
\* of configured required times, with one SlotMatch per required slot.
C3_Conservation ==
    \A d \in DOMAIN results :
        /\ results[d].ActualChecks + results[d].MissingChecks = results[d].RequiredChecks
        /\ results[d].ActualChecks >= 0
        /\ results[d].ActualChecks <= results[d].RequiredChecks
        /\ results[d].RequiredChecks = Len(required_times)
        /\ Len(results[d].AttendanceStatus) = Len(required_times)
        /\ results[d].ActualChecks =
               Cardinality({i \in DOMAIN results[d].AttendanceStatus :
                               results[d].AttendanceStatus[i].actual_time # NaT})

\* C3 witness: a day with some slots matched and some missing.
C3_Witness ==
    \E d \in DOMAIN results :
        /\ results[d].ActualChecks > 0
        /\ results[d].MissingChecks > 0

\* C4: a shift day is Absent if and only if the employee has no punch on the
\* shift's own calendar date, whatever the next day's punches, the lateness
\* and the late_threshold are.
C4_AbsentIffNoPunchOnShiftDate ==
    \A d \in DOMAIN results :
        (results[d].DayStatus = StatusAbsent)
            <=> (PunchesOn(results[d].Name, results[d].Date) = {})

\* C4 witness: an Absent day whose overflow slot is matched by a punch of the
\* next day, under a late_threshold of 0.
C4_Witness ==
    \E d \in DOMAIN results :
        /\ results[d].DayStatus = StatusAbsent
        /\ results[d].AttendanceStatus[Len(required_times)].matched
        /\ late_threshold = 0

\* the DayResults folded into a summary row
DaysOf(row) ==
    {d \in DOMAIN results :
        results[d].Name = row.Name /\ results[d].Department = row.Department}

AllMatched(d) ==
    \A i \in DOMAIN results[d].AttendanceStatus : results[d].AttendanceStatus[i].matched

\* the status text is 'نقص بصمة (n)' for some n
IsIncomplete(day_status) == day_status[1] = "Incomplete" /\ Len(day_status) = 4

\* C5: for a shift day with a punch on its own date the status is Complete
\* exactly when every required slot is matched, and otherwise Incomplete(n)
\* with n = required - matched >= 1; the five punches of the example day give
\* 5 of 6 slots matched, Incomplete(1) and late_count 0.
C5_CompleteIffAllMatched ==
    /\ \A d \in DOMAIN results :
           PunchesOn(results[d].Name, results[d].Date) # {} =>
               /\ (results[d].DayStatus = StatusComplete) <=> AllMatched(d)
               /\ ~AllMatched(d) =>
                      /\ results[d].DayStatus =
                             StatusIncomplete(results[d].RequiredChecks - results[d].ActualChecks)
                      /\ results[d].RequiredChecks - results[d].ActualChecks >= 1
    /\ (/\ pc = "done"
        /\ fingerprint_data = ExamplePunches
        /\ shift_data = <<ShiftRow("A", 1)>>
        /\ required_times = DefaultRequiredTimes
        /\ tolerance_minutes = 30)
       => /\ Len(results) = 1
          /\ results[1].ActualChecks = 5
          /\ ~results[1].AttendanceStatus[6].matched
          /\ results[1].DayStatus = StatusIncomplete(1)
          /\ results[1].LateCount = 0

\* C5 witness: the example day has been evaluated.
C5_Witness ==
    /\ pc = "done"
    /\ fingerprint_data = ExamplePunches
    /\ shift_data = <<ShiftRow("A", 1)>>
    /\ Len(results) = 1
    /\ results[1].DayStatus = StatusIncomplete(1)

C7_FinalStatus ==
    \A row \in summary :
        /\ row.FinalStatus \in {"Compliant", "NonCompliant"}
        /\ (row.FinalStatus = "Compliant")
               <=> (row.IncompleteDays = 0 /\ row.AbsentDays = 0)

\* C7 witness: one summary holds a Compliant row and a NonCompliant row.
C7_Witness ==
    \E r1, r2 \in summary :
        /\ r1.FinalStatus = "Compliant"
        /\ r2.FinalStatus = "NonCompliant"
        /\ r2.AbsentDays > 0

\* C8 as stated: an employee whose every day has all slots matched is
\* Compliant; with exactly one punch missing on one day that still has a
\* punch on its own date, incomplete_days is 1 and final_status NonCompliant.
C8_SingleMissingPunchFlips ==
    \A row \in summary :
        /\ (\A d \in DaysOf(row) : results[d].MissingChecks = 0)
               => row.FinalStatus = "Compliant"
        /\ (\E d \in DaysOf(row) :
               /\ results[d].MissingChecks = 1
               /\ PunchesOn(results[d].Name, results[d].Date) # {}
               /\ \A e \in DaysOf(row) \ {d} : results[e].MissingChecks = 0)
               => /\ row.IncompleteDays = 1
                  /\ row.FinalStatus = "NonCompliant"

\* C9 as stated: in every summary row Complete Days is the number of the
\* row's DayResults whose status is Complete and Incomplete Days the number
\* of those whose status is Incomplete(n).
C9_DayCountsMatchStatuses ==
    \A row \in summary :
        /\ row.CompleteDays =
               Cardinality({d \in DaysOf(row) : results[d].DayStatus = StatusComplete})
        /\ row.IncompleteDays =
               Cardinality({d \in DaysOf(row) : IsIncomplete(results[d].DayStatus)})

\* the deduplicated shift rows of an employee
ShiftDaysOf(emp_name) == {i \in DOMAIN shift_data : shift_data[i].Name = emp_name}

PunchInstants(emp_name, shift_date) ==
    {ToDateTime(fingerprint_data[i].Date,
                time_normalization_map(fingerprint_data[i].Time)) :
        i \in PunchesOn(emp_name, shift_date) \cup PunchesOn(emp_name, shift_date + 1)}

\* the delay of a slot match, 0 for an unmatched slot
DelayOf(status) ==
    IF status.matched THEN status.actual_time - status.required_time ELSE 0

\* C11: a punch exactly tolerance_minutes after a required instant, not
\* taken by an earlier slot of the day, lies inside the window: the slot is
\* matched; when it is matched to that punch the day's late_count and
\* late_minutes are those of the other slots alone.
C11_PunchAtToleranceEdge ==
    \A ref \in SlotRefs :
        LET d == ref[1]
            status == SlotAt(ref)
            edge == status.required_time + tolerance_minutes
            others == DOMAIN results[d].AttendanceStatus \ {ref[2]}
        IN  (/\ edge \in PunchInstants(results[d].Name, results[d].Date)
             /\ \A i \in 1..(ref[2] - 1) :
                    results[d].AttendanceStatus[i].actual_time # edge)
            => /\ status.matched
               /\ status.actual_time = edge =>
                      /\ results[d].LateCount =
                             Cardinality({i \in others :
                                 DelayOf(results[d].AttendanceStatus[i]) > tolerance_minutes})
                      /\ results[d].LateMinutes =
                             SumSeq([i \in DOMAIN results[d].AttendanceStatus |->
                                 IF i \in others
                                    /\ DelayOf(results[d].AttendanceStatus[i]) > tolerance_minutes
                                 THEN DelayOf(results[d].AttendanceStatus[i]) - tolerance_minutes
                                 ELSE 0])

\* C11 witness: a slot is matched to a punch exactly tolerance_minutes late.
C11_Witness ==
    \E ref \in SlotRefs :
        /\ SlotAt(ref).matched
        /\ SlotAt(ref).actual_time = SlotAt(ref).required_time + tolerance_minutes
        /\ results[ref[1]].LateCount = 0
        /\ results[ref[1]].LateMinutes = 0

\* C12 as stated: with tolerance 30, the only punch of an employee in the
\* date range of a shift day, 45 minutes after a required instant, is
\* matched to that slot, counted once in late_count and adds 15 to
\* late_minutes.
C12_LatePunchCounted ==
    \A ref \in SlotRefs :
        LET d == ref[1]
            status == SlotAt(ref)
        IN  (/\ tolerance_minutes = 30
             /\ PunchInstants(results[d].Name, results[d].Date)
                    = {status.required_time + 45})
            => /\ status.matched
               /\ status.actual_time = status.required_time + 45
               /\ results[d].LateCount = 1
               /\ results[d].LateMinutes = 15

\* the instants of an employee's punches in a batch, as the near-duplicate
\* pass reads them
InstantsOf(df, emp_name) ==
    {RawDateTime(df[i]) : i \in {k \in DOMAIN df : df[k].Name = emp_name}} \ {NaT}

\* the earliest of a non-empty set of instants
Earliest(instants) == CHOOSE t \in instants : \A u \in instants : t <= u

RECURSIVE KeptInstants(_)
\* the chronological scan of the rule: the earliest instant is kept, every
\* instant less than 10 minutes after it is removed, and the scan goes on
\* from the next instant left
KeptInstants(instants) ==
    IF instants = {} THEN {}
    ELSE LET kept == Earliest(instants)
         IN  {kept} \cup KeptInstants({t \in instants : t - kept >= 10})

\* C13: after cleaning, the punches of each employee are those the
\* chronological scan keeps (a punch goes exactly when it is less than 10
\* minutes after the most recent kept punch of the same employee): of two
\* punches 7 minutes apart the earlier survives, two punches 12 or exactly 10
\* minutes apart both survive, and what is kept of one employee depends on
\* that employee's punches alone.
C13_NearDuplicateRule ==
    pc \in {"loop", "done"} =>
        \A e \in Range(Employees) :
            LET before == InstantsOf(fingerprint_input, e)
                after == InstantsOf(fingerprint_data, e)
            IN  /\ after = KeptInstants(before)
                /\ \A t \in before :
                       /\ before = {t, t + 7} => after = {t}
                       /\ before = {t, t + 12} => after = before
                       /\ before = {t, t + 10} => after = before

\* C13 witness: of three punches of one employee at t, t+7 and t+10 the
\* second is removed and the third, exactly 10 minutes after the kept first,
\* is kept.
C13_Witness ==
    /\ pc = "done"
    /\ \E e \in Range(Employees) :
           \E t \in InstantsOf(fingerprint_input, e) :
               /\ InstantsOf(fingerprint_input, e) = {t, t + 7, t + 10}
               /\ InstantsOf(fingerprint_data, e) = {t, t + 10}

\* a configured time that is a valid HH:MM time of day
IsTimeOfDay(time_str) ==
    Len(time_str) = 2 /\ time_str[1] \in 0..23 /\ time_str[2] \in 0..59

\* C14: for a configured list of n valid required times every evaluated
\* shift day has exactly n slots in configuration order, slots 1..n-1 on the
\* shift date and slot n on the shift date + 1, by list position only.
C14_SlotsAnchoredByPosition ==
    (\A i \in DOMAIN required_times : IsTimeOfDay(required_times[i])) =>
        \A d \in DOMAIN results :
            /\ Len(results[d].AttendanceStatus) = Len(required_times)
            /\ \A i \in DOMAIN required_times :
                   LET anchor == IF i = Len(required_times)
                                 THEN results[d].Date + 1 ELSE results[d].Date
                   IN  /\ results[d].AttendanceStatus[i].required_time =
                              anchor * 1440 + required_times[i][1] * 60
                                  + required_times[i][2]
                       /\ results[d].AttendanceStatus[i].required_time_str =
                              required_times[i]

\* C14 witness: the single slot of a one-entry list is matched by a punch
\* of the day after the shift date.
C14_Witness ==
    /\ Len(required_times) = 1
    /\ \E d \in DOMAIN results :
           /\ results[d].AttendanceStatus[1].matched
           /\ results[d].AttendanceStatus[1].actual_time \div 1440 = results[d].Date + 1

\* the loop over the employees has run to its end
LoopFinished ==
    pc = "done" /\ signal \in {"", "No results generated - check your data"}

\* the DayResults of one shift row
DayResultsOf(shift_row) ==
    {d \in DOMAIN results :
        results[d].Name = shift_row.Name /\ results[d].Date = shift_row.ShiftDate}

\* C15 as stated: whatever the configured required times are, every shift
\* day is evaluated and yields a DayResult, in which each configured time
\* that is not a valid HH:MM time of day stands as 08:00.
C15_MalformedRequiredTimeFallsBack ==
    LoopFinished =>
        \A k \in DOMAIN shift_data :
            ~ShiftDateRaises(shift_data[k].ShiftDate) =>
                /\ DayResultsOf(shift_data[k]) # {}
                /\ \A d \in DayResultsOf(shift_data[k]) :
                       \A i \in DOMAIN required_times :
                           ~IsTimeOfDay(required_times[i]) =>
                               /\ results[d].AttendanceStatus[i].required_time % 1440 = 480
                               /\ results[d].AttendanceStatus[i].required_time_str = <<8, 0>>

\* C16 as stated: when the punch batch lacks one of Name, Department, Date,
\* Time or the shift batch lacks Name or Shift Date, the call ends by
\* returning an empty result, without raising, after reporting the missing
\* column names of a batch, and produces no DayResult.
C16_MissingColumnsReported ==
    LET missing_fingerprint_cols ==
            MissingCols(required_fingerprint_cols, fingerprint_columns)
        missing_shift_cols == MissingCols(required_shift_cols, shift_columns)
    IN  (/\ pc # "start"
         /\ fingerprint_input # <<>>
         /\ shift_data # <<>>
         /\ missing_fingerprint_cols \cup missing_shift_cols # {})
        => /\ pc = "done"
           /\ results = <<>>
           /\ summary = {}
           /\ missing_columns \in
                  {missing_fingerprint_cols, missing_shift_cols,
                   missing_fingerprint_cols \cup missing_shift_cols} \ {{}}

\* a punch row whose date and time give no timestamp
Unparseable(row) == RawDateTime(row) = NaT /\ WithDateTime(row).DateTime = NaT

\* the caller's batch without its unparseable rows
ParseableInput == SelectSeq(fingerprint_input, LAMBDA row : ~Unparseable(row))

\* the DayResults of a run on the given cleaned punches and the cleaned
\* shifts of this run, as a set
DayResultsOn(fingerprints) ==
    UNION {Range(DayResultsFrom(
                     SelectSeq(shift_data, LAMBDA row : row.Name = e), 1, fingerprints,
                     required_times, tolerance_minutes, late_threshold)) :
              e \in Range(Employees)}

\* C17: an unparseable punch never aborts the run, is the actual punch of no
\* slot, does not keep a shift day from being Absent, and leaves the result
\* of the run what it is for the batch without the unparseable rows (so it
\* removes no other punch and the other punches are processed as usual).
C17_UnparseablePunchDropped ==
    /\ pc # "raised"
    /\ \A ref \in SlotRefs :
           SlotAt(ref).matched =>
               SlotAt(ref).actual_time
                   \in PunchInstants(results[ref[1]].Name, results[ref[1]].Date)
    /\ \A d \in DOMAIN results :
           (\A i \in DOMAIN fingerprint_data :
                (/\ fingerprint_data[i].Name = results[d].Name
                 /\ fingerprint_data[i].Date = results[d].Date)
                => Unparseable(fingerprint_data[i]))
           => results[d].DayStatus = StatusAbsent
    /\ (LoopFinished /\ ParseableInput # <<>>) =>
           /\ Range(results) = DayResultsOn(CleanFingerprints(ParseableInput))
           /\ \A e \in Range(Employees) :
                  InstantsOf(fingerprint_data, e)
                      = InstantsOf(CleanFingerprints(ParseableInput), e)

\* C17 witness: a finished run whose batch held the unparseable punch 25:00
\* beside a parseable one of the same employee and date, which was kept and
\* matched, and an unparseable punch alone on a shift date, which is Absent.
C17_Witness ==
    /\ LoopFinished
    /\ \E i, j \in DOMAIN fingerprint_data :
           /\ Unparseable(fingerprint_data[i])
           /\ fingerprint_data[i].Time = <<25, 0>>
           /\ fingerprint_data[j].Name = fingerprint_data[i].Name
           /\ fingerprint_data[j].Date = fingerprint_data[i].Date
           /\ fingerprint_data[j].Time = <<8, 2>>
           /\ \E ref \in SlotRefs :
                  /\ results[ref[1]].Name = fingerprint_data[j].Name
                  /\ SlotAt(ref).matched
                  /\ SlotAt(ref).actual_time = RawDateTime(fingerprint_data[j])
    /\ \E d \in DOMAIN results :
           /\ results[d].DayStatus = StatusAbsent
           /\ \E i \in DOMAIN fingerprint_data :
                  /\ fingerprint_data[i].Name = results[d].Name
                  /\ fingerprint_data[i].Date = results[d].Date
                  /\ Unparseable(fingerprint_data[i])

\* a punch time written HH:MM:SS that the remap table leaves as it is
HasSeconds(time_str) ==
    /\ Len(time_str) = 3
    /\ time_str[1] \in 0..23 /\ time_str[2] \in 0..59 /\ time_str[3] \in 0..59
    /\ time_normalization_map(time_str) = time_str

\* C18 as stated: a punch given as HH:MM:SS counts as a punch on its date (a
\* shift day on that date is not Absent) and, like the punch at HH:MM, is
\* matched by the first slot whose window holds it unless an earlier slot
\* took that instant.
C18_SecondsPunchValid ==
    \A d \in DOMAIN results :
        \A i \in DOMAIN fingerprint_input :
            (/\ fingerprint_input[i].Name = results[d].Name
             /\ fingerprint_input[i].Date = results[d].Date
             /\ HasSeconds(fingerprint_input[i].Time))
            => LET instant == results[d].Date * 1440
                                  + fingerprint_input[i].Time[1] * 60
                                  + fingerprint_input[i].Time[2]
               IN  /\ results[d].DayStatus # StatusAbsent
                   /\ \A k \in DOMAIN results[d].AttendanceStatus :
                          (/\ instant >= results[d].AttendanceStatus[k].tolerance_start
                           /\ instant <= results[d].AttendanceStatus[k].tolerance_end
                           /\ \A e \in 1..(k - 1) :
                                  results[d].AttendanceStatus[e].actual_time # instant)
                          => results[d].AttendanceStatus[k].matched

\* C19: when the processing of shift rows raises, exactly the raising rows
\* have no DayResult and every other shift row of every employee has its
\* one DayResult; Total Working Days still counts the skipped rows.
C19_FailedDaySkippedAlone ==
    LoopFinished =>
        /\ \A k \in DOMAIN shift_data :
               Cardinality(DayResultsOf(shift_data[k])) =
                   IF ShiftRowRaises(shift_data[k], required_times) THEN 0 ELSE 1
        /\ Len(results) =
               Cardinality({k \in DOMAIN shift_data :
                               ~ShiftRowRaises(shift_data[k], required_times)})
        /\ \A row \in summary :
               row.TotalWorkingDays = Cardinality(ShiftDaysOf(row.Name))

\* C19 witness: an employee with a raising shift row between two rows that
\* have their DayResults, and 3 Total Working Days.
C19_Witness ==
    /\ LoopFinished
    /\ \E i, j, k \in DOMAIN shift_data :
           /\ i < j /\ j < k
           /\ shift_data[i].Name = shift_data[j].Name
           /\ shift_data[k].Name = shift_data[j].Name
           /\ ShiftDateRaises(shift_data[j].ShiftDate)
           /\ DayResultsOf(shift_data[j]) = {}
           /\ DayResultsOf(shift_data[i]) # {}
           /\ DayResultsOf(shift_data[k]) # {}
           /\ \E row \in summary :
                  /\ row.Name = shift_data[j].Name
                  /\ row.TotalWorkingDays = 3
                  /\ Cardinality(DaysOf(row)) <= 2

\* no scheduled employee has a punch on a shift date or on the day after it
ZeroOverlap ==
    \A k \in DOMAIN shift_data :
        ~ShiftDateRaises(shift_data[k].ShiftDate) =>
            /\ PunchesOn(shift_data[k].Name, shift_data[k].ShiftDate) = {}
            /\ PunchesOn(shift_data[k].Name, shift_data[k].ShiftDate + 1) = {}

\* C20 as stated: non-empty batches with zero overlap yield an empty summary
\* together with the 'no results' signal.
C20_ZeroOverlapNoResults ==
    (LoopFinished /\ ZeroOverlap) =>
        /\ summary = {}
        /\ signal = "No results generated - check your data"

\* C20 amended: with zero overlap every shift row that is processed gets a
\* DayResult that is Absent with no check matched and department Unknown,
\* and the summary has a row for each such employee; the empty summary with
\* the 'no results' signal arises exactly when the processing of every
\* shift row raised, and no column is reported missing with it.
C20_ZeroOverlapAllAbsent ==
    LoopFinished =>
        /\ (signal = "No results generated - check your data")
               <=> (\A k \in DOMAIN shift_data :
                       ShiftRowRaises(shift_data[k], required_times))
        /\ signal = "No results generated - check your data" =>
               summary = {} /\ missing_columns = {}
        /\ ZeroOverlap =>
               \A k \in DOMAIN shift_data :
                   ~ShiftRowRaises(shift_data[k], required_times) =>
                       /\ DayResultsOf(shift_data[k]) # {}
                       /\ \A d \in DayResultsOf(shift_data[k]) :
                              /\ results[d].DayStatus = StatusAbsent
                              /\ results[d].ActualChecks = 0
                              /\ results[d].Department = UnknownDepartment
                       /\ \E row \in summary :
                              /\ row.Name = shift_data[k].Name
                              /\ row.Department = UnknownDepartment

\* C20 witness: a finished run on batches with zero overlap whose summary
\* is not empty.
C20_Witness ==
    /\ LoopFinished
    /\ ZeroOverlap
    /\ fingerprint_data # <<>>
    /\ \E d \in DOMAIN results : results[d].DayStatus = StatusAbsent
    /\ summary # {}
    /\ signal = ""

\* the distinct shift dates the caller's schedule holds for an employee
ScheduledDates(emp_name) ==
    {shift_input[k].ShiftDate :
        k \in {i \in DOMAIN shift_input : shift_input[i].Name = emp_name}}

\* C21: in every summary row Total Working Days is the number of distinct
\* shift days of that employee in the schedule as passed, whether or not
\* each of them produced a DayResult.
C21_TotalWorkingDaysFromSchedule ==
    \A row \in summary :
        row.TotalWorkingDays = Cardinality(ScheduledDates(row.Name))

\* C21 witness: the schedule repeats a shift row of an employee and holds a
\* row whose processing raised; the employee's Total Working Days is 2 with
\* 1 DayResult.
C21_Witness ==
    \E row \in summary :
        /\ Len(SelectSeq(shift_input, LAMBDA r : r.Name = row.Name)) = 3
        /\ row.TotalWorkingDays = 2
        /\ Cardinality({d \in DOMAIN results : results[d].Name = row.Name}) = 1

\* the departments the caller's punches give an employee
DepartmentsOf(emp_name) ==
    {fingerprint_input[i].Department :
        i \in {k \in DOMAIN fingerprint_input : fingerprint_input[k].Name = emp_name}}

\* C22 as stated: the summary of a run that produced results holds exactly
\* one row for every scheduled employee whose punches carry a single
\* department, also when some shift days of the employee have no punch on
\* their date or the date after.
C22_OneRowPerScheduledEmployee ==
    (LoopFinished /\ results # <<>>) =>
        \A k \in DOMAIN shift_data :
            Cardinality(DepartmentsOf(shift_data[k].Name)) <= 1 =>
                Cardinality({row \in summary : row.Name = shift_data[k].Name}) = 1

\* this call has the batches, columns and (unchanged) configuration of the
\* call before it
SameInputsAsPrevious ==
    /\ previous.valid
    /\ previous.fingerprints = fingerprint_input
    /\ previous.columns = fingerprint_columns
    /\ previous.shifts = shift_input

\* C23 as stated: a call that ends with the inputs and configuration of the
\* call before it, on the same calculator or on a fresh one, has built the
\* same daily rows in the same order and returns the same summary.
C23_RerunIdentical ==
    (pc = "done" /\ SameInputsAsPrevious) =>
        /\ results = previous.daily
        /\ summary = previous.summary

\* C29 as stated: whenever a call has returned, get_daily_results gives the
\* daily rows of that call, and so an empty table when the call returned an
\* empty result (empty input, missing columns or no results).
C29_DailyResultsOfLatestCall ==
    pc = "done" =>
        /\ get_daily_results = results
        /\ summary = {} => get_daily_results = <<>>

\* the records of one employee in the batches as passed
OwnPunches(emp_name) == SelectSeq(fingerprint_input, LAMBDA row : row.Name = emp_name)
OwnShifts(emp_name) == SelectSeq(shift_input, LAMBDA row : row.Name = emp_name)

\* the daily rows of a call that is given the records of one employee only
DayResultsAlone(emp_name) ==
    IF OwnPunches(emp_name) = <<>> \/ OwnShifts(emp_name) = <<>> THEN <<>>
    ELSE DayResultsFrom(CleanShifts(OwnShifts(emp_name)), 1,
                        CleanFingerprints(OwnPunches(emp_name)),
                        required_times, tolerance_minutes, late_threshold)

\* the summary of that call
SummaryAlone(emp_name) ==
    AggregateEmployeeResults(DayResultsAlone(emp_name),
                             ShiftCounts(CleanShifts(OwnShifts(emp_name))),
                             absence_threshold)

\* the daily rows and the summary rows an employee has in this run
DayResultsInRun(emp_name) == SelectSeq(results, LAMBDA day : day.Name = emp_name)
SummaryInRun(emp_name) == {row \in summary : row.Name = emp_name}

\* C24 as stated: the DayResults and summary rows of every employee are
\* those of a call given that employee's punches and shift days alone, so
\* the records of other employees never change them.
C24_EmployeeIndependent ==
    pc = "done" =>
        \A e \in Range(Employees) :
            /\ DayResultsInRun(e) = DayResultsAlone(e)
            /\ SummaryInRun(e) = SummaryAlone(e)

\* the instants that slots before slot k of DayResult d were matched to
TakenBefore(d, k) ==
    {results[d].AttendanceStatus[e].actual_time :
        e \in {j \in 1..(k - 1) : results[d].AttendanceStatus[j].matched}}

\* the punches of the day inside the window of slot k that no earlier slot
\* of the day took
CandidatesOf(d, k) ==
    {t \in PunchInstants(results[d].Name, results[d].Date) :
        /\ t >= results[d].AttendanceStatus[k].tolerance_start
        /\ t <= results[d].AttendanceStatus[k].tolerance_end}
    \ TakenBefore(d, k)

\* C25: each slot, in configuration order, is matched exactly when a punch
\* inside its inclusive window is left by the earlier slots of the day, and
\* then to the one closest to the required instant, the earlier one on a
\* tie; a slot whose candidates were all taken stays unmatched.
C25_GreedyClosestEarliestOnTie ==
    \A d \in DOMAIN results :
        \A k \in DOMAIN results[d].AttendanceStatus :
            LET status == results[d].AttendanceStatus[k]
            IN  /\ status.matched <=> (CandidatesOf(d, k) # {})
                /\ status.matched =>
                       /\ status.actual_time \in CandidatesOf(d, k)
                       /\ \A t \in CandidatesOf(d, k) :
                              \/ Abs(status.actual_time - status.required_time)
                                     < Abs(t - status.required_time)
                              \/ /\ Abs(status.actual_time - status.required_time)
                                        = Abs(t - status.required_time)
                                 /\ status.actual_time <= t

\* C25 witness: a slot with two punches at the same distance before and
\* after it takes the earlier one, the next slot at the same time takes the
\* later one.
C25_Witness ==
    \E d \in DOMAIN results :
        \E k \in DOMAIN results[d].AttendanceStatus :
            LET status == results[d].AttendanceStatus[k]
            IN  /\ status.matched
                /\ status.actual_time < status.required_time
                /\ (2 * status.required_time - status.actual_time) \in CandidatesOf(d, k)
                /\ (k + 1) \in DOMAIN results[d].AttendanceStatus
                /\ results[d].AttendanceStatus[k + 1].actual_time
                       = 2 * status.required_time - status.actual_time

\* a run: every instant but the earliest is less than 10 minutes after the
\* instant before it
IsRun(instants) ==
    \A t \in instants :
        t = Earliest(instants) \/ \E u \in instants : u < t /\ t - u < 10

\* C26 as stated: a run of one employee's punches collapses to its first
\* punch only, however long the run lasts.
C26_RunCollapsesToFirst ==
    pc \in {"loop", "done"} =>
        \A e \in Range(Employees) :
            LET before == InstantsOf(fingerprint_input, e)
            IN  (before # {} /\ IsRun(before)) =>
                    InstantsOf(fingerprint_data, e) = {Earliest(before)}

\* C26 amended: a removed punch never becomes the anchor: the earliest
\* punch is kept, kept punches are at least 10 minutes apart, and every
\* removed punch is less than 10 minutes after an earlier kept punch; so a
\* run collapses to its first punch only when all of it lies within 10
\* minutes of that punch, and a punch of the run 10 minutes or more after
\* the anchor is kept although it is close to a removed punch.
C26_RemovedNeverAnchors ==
    pc \in {"loop", "done"} =>
        \A e \in Range(Employees) :
            LET before == InstantsOf(fingerprint_input, e)
                after == InstantsOf(fingerprint_data, e)
            IN  /\ after \subseteq before
                /\ before # {} => Earliest(before) \in after
                /\ \A t, u \in after : t < u => u - t >= 10
                /\ \A r \in before \ after :
                       \E t \in after : t < r /\ r - t < 10
                /\ (before # {} /\ \A t \in before : t - Earliest(before) < 10)
                       => after = {Earliest(before)}

\* C26 witness: of the run t, t+7, t+12 the punch at t+12, 5 minutes after
\* the removed one, is kept.
C26_Witness ==
    /\ pc = "done"
    /\ \E e \in Range(Employees) :
           \E t \in InstantsOf(fingerprint_input, e) :
               /\ InstantsOf(fingerprint_input, e) = {t, t + 7, t + 12}
               /\ InstantsOf(fingerprint_data, e) = {t, t + 12}

C28_AbsentHasNoMatch ==
    \A d \in DOMAIN results :
        results[d].DayStatus = StatusAbsent
            => /\ results[d].ActualChecks = 0
               /\ results[d].MissingChecks = results[d].RequiredChecks

\* C28 amended: on an Absent day no slot is matched by a punch of the shift
\* date; a matched slot carries a punch dated the day after, ActualChecks
\* counts exactly those slots and MissingChecks is the rest.
C28_AbsentMatchesOnlyOverflow ==
    \A d \in DOMAIN results :
        results[d].DayStatus = StatusAbsent
            => LET overflow ==
                       {k \in DOMAIN results[d].AttendanceStatus :
                           /\ results[d].AttendanceStatus[k].matched
                           /\ results[d].AttendanceStatus[k].actual_time
                                  \div MinutesPerDay = results[d].Date + 1}
               IN  /\ \A k \in DOMAIN results[d].AttendanceStatus :
                          results[d].AttendanceStatus[k].matched => k \in overflow
                   /\ results[d].ActualChecks = Cardinality(overflow)
                   /\ results[d].MissingChecks
                          = results[d].RequiredChecks - Cardinality(overflow)

\* C28 witness: an Absent day that reports a matched slot.
C28_Witness ==
    \E d \in DOMAIN results :
        /\ results[d].DayStatus = StatusAbsent
        /\ results[d].ActualChecks >= 1
        /\ results[d].MissingChecks < results[d].RequiredChecks

\* C30: any two punches of one employee that reach the slot matcher for a
\* shift day have timestamps, derived after the time-string remap, at least
\* 10 minutes apart.
C30_MatcherInstantsApart ==
    \A d \in DOMAIN results :
        \A t, u \in PunchInstants(results[d].Name, results[d].Date) :
            t < u => u - t >= NearDuplicateMinutes

====
